---- MODULE Spec2Model ----
(***************************************************************************)
(* The task-dependency execution engine of backend/core/orchestrator.py    *)
(* (a LangGraph StateGraph: router_node, three collector nodes, the        *)
(* conditional edge get_next_node) as run by run_orchestrator of           *)
(* backend/core/pipeline.py.                                               *)
(*                                                                         *)
(* A plan is a sequence of task records [id, assigned_agent, depends_on].  *)
(* A task is referred to by its position in the plan, which stands for the *)
(* Python dict object of the task (two tasks may carry the same id).       *)
(***************************************************************************)
EXTENDS Integers, Sequences, FiniteSets, TLC

\* ------------------------------------------------------------------------
\* Bounds of the model
\* ------------------------------------------------------------------------
\* Longest plan whose agents and dependency sets are enumerated exhaustively.
MaxTasks == 2
\* Longest plan of the regular shapes (independent tasks, chain, fan-in).
MaxLong == 8

\* ------------------------------------------------------------------------
\* Program constants
\* ------------------------------------------------------------------------
\* app.invoke(inputs, {"recursion_limit": 15})
recursion_limit == 15

END == "__end__"

\* The assigned_agent values get_next_node knows, and one it does not.
KnownAgents == {"CompetitorScout", "TechPaperMiner", "TrendScraper"}
AgentNames == KnownAgents \cup {"Nonexistent"}

\* ------------------------------------------------------------------------
\* Plans
\* ------------------------------------------------------------------------
Task(i, a, d) == [id |-> i, assigned_agent |-> a, depends_on |-> d]

\* A plan of n tasks with ids 1..n in plan order.
SmallPlan(n, a, d) == [i \in 1..n |-> Task(i, a[i], d[i])]

\* The collectors in the order of the plan of orchestrator.py's __main__.
AgentOf(i) ==
    CASE i % 3 = 1 -> "CompetitorScout"
      [] i % 3 = 2 -> "TrendScraper"
      [] OTHER     -> "TechPaperMiner"

Independent(n) == [i \in 1..n |-> Task(i, AgentOf(i), {})]
Chain(n) == [i \in 1..n |-> Task(i, AgentOf(i), IF i = 1 THEN {} ELSE {i - 1})]
FanIn(n) == [i \in 1..n |-> Task(i, AgentOf(i), IF i < n THEN {} ELSE 1..(n - 1))]

ShapePlans == UNION { {Independent(n), Chain(n), FanIn(n)} : n \in 1..MaxLong }

\* Plans in which two tasks share an id, followed by a task that depends on it.
DupPlans ==
    { <<Task(1, a, {}), Task(1, b, {}), Task(2, c, {1})>> :
        a \in AgentNames, b \in AgentNames, c \in KnownAgents }

\* Plans in which the second task depends on an id (99) that no task has,
\* alone or next to a real dependency, among tasks that can run.
GhostPlans ==
    { <<Task(1, a, {}), Task(2, b, g), Task(3, c, d)>> :
        a \in KnownAgents, b \in AgentNames, g \in {{99}, {1, 99}},
        c \in KnownAgents, d \in {{}, {1}} }

\* DynamicTaskPlanner._fallback_plan: `tech` tells whether the intent has one
\* of the technology keywords, `market` whether the query mentions a
\* competitor or a market; TrendScraper is always appended, and task i of the
\* plan has id i and no dependency.
fallback_agents(tech, market) ==
    (IF tech THEN <<"TechPaperMiner">> ELSE <<>>)
    \o (IF market THEN <<"CompetitorScout">> ELSE <<>>)
    \o <<"TrendScraper">>

fallback_plan(tech, market) ==
    [i \in DOMAIN fallback_agents(tech, market) |->
        Task(i, fallback_agents(tech, market)[i], {})]

FallbackPlans == {fallback_plan(tech, market) : tech \in BOOLEAN, market \in BOOLEAN}

\* ------------------------------------------------------------------------
\* State
\* ------------------------------------------------------------------------
VARIABLES
    plan,             \* GraphState.plan["tasks"]
    completed_tasks,  \* GraphState.completed_tasks
    raw_documents,    \* GraphState.raw_documents
    agent_summaries,  \* GraphState.agent_summaries
    node,             \* the graph node that runs next, END, or "blocked_in_call"
    step,             \* supersteps executed so far
    status,           \* of app.invoke: "running", "returned", "recursion_error", "node_error"
    ret,              \* of run_orchestrator: "pending", "result", "None"
    runnable,         \* runnable_tasks of the last find_runnable_tasks call
    trace,            \* the dispatches so far: task position, capability, router's choice
    swapped           \* SpecMerge: the state when two step results are merged in the other order

\* agent_node of graph/nodes/agent_node.py
VARIABLES
    suggested_agents, \* state["plan"]["suggested_agents"]
    tasks,            \* the coroutines handed to asyncio.gather, by tool name
    results,          \* what each of them has ended with, "pending" until then
    finished,         \* the order in which they ended
    agent_outputs,    \* agent_outputs of the state agent_node returns
    agent_pc          \* agent_node: "idle", "start", "gather", "returned", "raised"

\* KeyManager and one call of GenAIClient.generate (infra/)
VARIABLES
    google_keys,      \* the keys configured in settings
    keys,             \* KeyManager.keys
    cycle_pos,        \* KeyManager._cycle: 0 for None, else the index of the next key
    rounds,           \* len(KeyManager.keys) * max_retries_per_key of the outer range
    round,            \* iterations of the outer loop started
    attempt,          \* attempt of the inner loop
    api_key,          \* the key of the current client, "" before the first
    failures,         \* failures
    calls,            \* the keys of the generate_content calls made, in order
    generate_pc       \* "idle", "for_key", "attempt", or how generate ended

\* Requests to /api/run (app/main.py, run_pipeline of core/pipeline.py)
VARIABLES
    requests,         \* the number of requests received so far
    stages_run,       \* the stages of run_pipeline that ran, with what each returned
    pipeline_result,  \* what run_pipeline returned, NoResult until then
    report_md,        \* whether the file report.md can be read
    rows,             \* the rows inserted into reports by committed transactions
    response,         \* the HTTP response: 0 until sent, else the status code
    api_pc            \* "idle", "pipeline", "endpoint", "responded"

graph_vars == <<plan, completed_tasks, raw_documents, agent_summaries, node, step,
                status, ret, runnable, trace, swapped>>
agent_vars == <<suggested_agents, tasks, results, finished, agent_outputs, agent_pc>>
genai_vars == <<google_keys, keys, cycle_pos, rounds, round, attempt, api_key, failures,
                calls, generate_pc>>
api_vars == <<requests, stages_run, pipeline_result, report_md, rows, response, api_pc>>

\* The variables of the other components, which a step of the graph leaves alone.
aux == <<agent_vars, genai_vars, api_vars>>

vars == <<graph_vars, agent_vars, genai_vars, api_vars>>

\* ------------------------------------------------------------------------
\* find_runnable_tasks and the task a node picks
\* ------------------------------------------------------------------------
\* The loop of find_runnable_tasks from position i on: the positions, in plan
\* order, of the tasks it appends to runnable_tasks.
RECURSIVE find_runnable_from(_, _, _)
find_runnable_from(p, completed, i) ==
    IF i > Len(p) THEN <<>>
    ELSE IF p[i].id \in completed THEN find_runnable_from(p, completed, i + 1)
    ELSE IF p[i].depends_on \subseteq completed
         THEN <<i>> \o find_runnable_from(p, completed, i + 1)
         ELSE find_runnable_from(p, completed, i + 1)

\* find_runnable_tasks with a `break` after the first append.
find_runnable_tasks_break(p, completed) ==
    LET r == find_runnable_from(p, completed, 1) IN
    IF r = <<>> THEN r ELSE <<r[1]>>

\* find_runnable_tasks collecting the runnable tasks in the reverse of plan
\* order.
find_runnable_tasks_reversed(p, completed) ==
    LET r == find_runnable_from(p, completed, 1) IN
    [k \in 1..Len(r) |-> r[Len(r) + 1 - k]]

\* find_runnable_tasks that only waits for the dependencies that are ids of
\* tasks of the plan.
RECURSIVE find_runnable_known_from(_, _, _)
find_runnable_known_from(p, completed, i) ==
    IF i > Len(p) THEN <<>>
    ELSE IF p[i].id \in completed THEN find_runnable_known_from(p, completed, i + 1)
    ELSE IF (p[i].depends_on \cap {p[j].id : j \in DOMAIN p}) \subseteq completed
         THEN <<i>> \o find_runnable_known_from(p, completed, i + 1)
         ELSE find_runnable_known_from(p, completed, i + 1)

find_runnable_tasks_known_only(p, completed) == find_runnable_known_from(p, completed, 1)

find_runnable_tasks(p, completed) == find_runnable_from(p, completed, 1)

\* The loop at the head of each collector node: the first task that is not
\* completed, is assigned to the node's agent and has its dependencies met;
\* 0 stands for None.
RECURSIVE pending_task_from(_, _, _, _)
pending_task_from(p, completed, agent, i) ==
    IF i > Len(p) THEN 0
    ELSE IF /\ p[i].id \notin completed
            /\ p[i].assigned_agent = agent
            /\ p[i].depends_on \subseteq completed
         THEN i
         ELSE pending_task_from(p, completed, agent, i + 1)

\* The node's loop without the dependency test.
RECURSIVE pending_task_any_from(_, _, _, _)
pending_task_any_from(p, completed, agent, i) ==
    IF i > Len(p) THEN 0
    ELSE IF p[i].id \notin completed /\ p[i].assigned_agent = agent
         THEN i
         ELSE pending_task_any_from(p, completed, agent, i + 1)

pending_task_no_dependencies(p, completed, agent) ==
    pending_task_any_from(p, completed, agent, 1)

\* The node's loop without its `break`: the last matching task wins.
RECURSIVE pending_task_last_from(_, _, _, _)
pending_task_last_from(p, completed, agent, i) ==
    IF i < 1 THEN 0
    ELSE IF /\ p[i].id \notin completed
            /\ p[i].assigned_agent = agent
            /\ p[i].depends_on \subseteq completed
         THEN i
         ELSE pending_task_last_from(p, completed, agent, i - 1)

pending_task_no_break(p, completed, agent) ==
    pending_task_last_from(p, completed, agent, Len(p))

\* The node's loop without the `task_id not in completed_tasks` test.
RECURSIVE pending_task_again_from(_, _, _, _)
pending_task_again_from(p, completed, agent, i) ==
    IF i > Len(p) THEN 0
    ELSE IF p[i].assigned_agent = agent /\ p[i].depends_on \subseteq completed
         THEN i
         ELSE pending_task_again_from(p, completed, agent, i + 1)

pending_task_no_completed_test(p, completed, agent) ==
    pending_task_again_from(p, completed, agent, 1)

pending_task(p, completed, agent) == pending_task_from(p, completed, agent, 1)

\* ------------------------------------------------------------------------
\* The router
\* ------------------------------------------------------------------------
\* get_next_node without its `if not runnable_tasks` test: with nothing
\* runnable it falls through to a collector node.
get_next_node_no_end_test(p, completed) ==
    LET runnable_tasks == find_runnable_tasks(p, completed) IN
    IF runnable_tasks = <<>> THEN "competitor_scout"
    ELSE LET agent_name == p[runnable_tasks[1]].assigned_agent IN
         CASE agent_name = "CompetitorScout" -> "competitor_scout"
           [] agent_name = "TechPaperMiner"  -> "tech_paper_miner"
           [] agent_name = "TrendScraper"    -> "trend_scraper"
           [] OTHER                          -> END

\* get_next_node spelling the trend agent as trend_scraper_node spells it in
\* its summaries.
get_next_node_trends_label(p, completed) ==
    LET runnable_tasks == find_runnable_tasks(p, completed) IN
    IF runnable_tasks = <<>> THEN END
    ELSE LET agent_name == p[runnable_tasks[1]].assigned_agent IN
         CASE agent_name = "CompetitorScout" -> "competitor_scout"
           [] agent_name = "TechPaperMiner"  -> "tech_paper_miner"
           [] agent_name = "TrendsScraper"   -> "trend_scraper"
           [] OTHER                          -> END

get_next_node(p, completed) ==
    LET runnable_tasks == find_runnable_tasks(p, completed) IN
    IF runnable_tasks = <<>> THEN END
    ELSE LET agent_name == p[runnable_tasks[1]].assigned_agent IN
         CASE agent_name = "CompetitorScout" -> "competitor_scout"
           [] agent_name = "TechPaperMiner"  -> "tech_paper_miner"
           [] agent_name = "TrendScraper"    -> "trend_scraper"
           [] OTHER                          -> END

\* ------------------------------------------------------------------------
\* Capabilities
\* ------------------------------------------------------------------------
\* collected_documents of a run(): one record stands for the Documents
\* collected for the task.
Collected(task_id) == <<[task_id |-> task_id]>>

\* The dicts a collector's run() returns. Every run() catches its own
\* exceptions and returns {"success": False, "error": ...}, a dict without
\* the keys output_summary and output_raw_docs.
Failure == [success |-> FALSE, error |-> "error"]
Success(docs) ==
    [success |-> TRUE, output_summary |-> "summary", output_raw_docs |-> docs]
\* TechPaperMinerAgent.run when the model never calls PaperList.
NoSummary(docs) ==
    [success |-> FALSE, output_summary |-> "[]", output_raw_docs |-> docs,
     error |-> "LLM failed to provide a final summary."]

\* What agent.run(task, state) may return: the failure dict, the result with
\* the collected documents, and per agent: CompetitorScout's fallback mode
\* (a summary and no documents), TechPaperMiner's missing summary.
AgentRun(agent, task_id) ==
    {Failure, Success(Collected(task_id))}
    \cup (IF agent = "CompetitorScout" THEN {Success(<<>>)} ELSE {})
    \cup (IF agent = "TechPaperMiner" THEN {NoSummary(Collected(task_id))} ELSE {})

\* result.get(key, default)
Get(result, key, default) == IF key \in DOMAIN result THEN result[key] ELSE default

\* A node that reads the task's id under a key the task does not have: 0
\* stands for the None that task.get returns.
collector_update_no_id(label, task_id, result) ==
    [raw_documents |-> Get(result, "output_raw_docs", <<>>),
     agent_summaries |->
        <<[agent |-> label, task_id |-> 0,
           summary |-> Get(result, "output_summary", "{}")]>>,
     completed_tasks |-> {0}]

\* A node that marks a task complete only when its agent reported success.
collector_update_success_only(label, task_id, result) ==
    [raw_documents |-> Get(result, "output_raw_docs", <<>>),
     agent_summaries |->
        <<[agent |-> label, task_id |-> task_id,
           summary |-> Get(result, "output_summary", "{}")]>>,
     completed_tasks |-> IF result.success THEN {task_id} ELSE {}]

\* The partial state a collector node returns for a task without dependencies.
collector_update(label, task_id, result) ==
    [raw_documents |-> Get(result, "output_raw_docs", <<>>),
     agent_summaries |->
        <<[agent |-> label, task_id |-> task_id,
           summary |-> Get(result, "output_summary", "{}")]>>,
     completed_tasks |-> {task_id}]

\* A _run_synthesis_task that also returns the final report as a document.
synthesis_update_with_documents(task) ==
    [raw_documents |-> Collected(task.id),
     agent_summaries |->
        <<[agent |-> task.assigned_agent, task_id |-> task.id, summary |-> "final_report"]>>,
     completed_tasks |-> {task.id}]

\* The partial state _run_synthesis_task returns when llm.invoke returns.
synthesis_update(task) ==
    [agent_summaries |->
        <<[agent |-> task.assigned_agent, task_id |-> task.id, summary |-> "final_report"]>>,
     completed_tasks |-> {task.id}]

\* ------------------------------------------------------------------------
\* The reducers of GraphState
\* ------------------------------------------------------------------------
\* A channel without a reducer: the node's value replaces the old one.
last_value(a, b) == b

ior(a, b) == a \cup b
add(a, b) == a \o b

\* A channel declared without its reducer: a returned value replaces the old one.
merge_completed_tasks_no_reducer(old, update) ==
    IF "completed_tasks" \in DOMAIN update THEN update.completed_tasks ELSE old

merge_raw_documents_no_reducer(old, update) ==
    IF "raw_documents" \in DOMAIN update THEN update.raw_documents ELSE old

merge_agent_summaries_no_reducer(old, update) ==
    IF "agent_summaries" \in DOMAIN update THEN update.agent_summaries ELSE old

\* LangGraph applies a node's partial state: a key the node did not return
\* leaves its channel alone, a returned key goes through the channel's reducer.
merge_completed_tasks(old, update) ==
    IF "completed_tasks" \in DOMAIN update THEN ior(old, update.completed_tasks) ELSE old

merge_raw_documents(old, update) ==
    IF "raw_documents" \in DOMAIN update THEN add(old, update.raw_documents) ELSE old

merge_agent_summaries(old, update) ==
    IF "agent_summaries" \in DOMAIN update THEN add(old, update.agent_summaries) ELSE old

\* ------------------------------------------------------------------------
\* run_orchestrator: the inputs, the graph's steps, the return
\* ------------------------------------------------------------------------
\* The plans a run starts from: every plan of at most MaxTasks tasks with any
\* agent names and any dependency sets over 1..MaxTasks (forward and backward
\* edges, self-loops, cycles and, in a plan shorter than MaxTasks, ids that no
\* task of the plan has), the regular shapes, the plans with a shared id, the
\* plans with a dependency on an id that no task has, and the planner's
\* fallback plans.
StartPlan ==
    \/ \E n \in 0..MaxTasks :
         \E a \in [1..n -> AgentNames], d \in [1..n -> SUBSET (1..MaxTasks)] :
             plan = SmallPlan(n, a, d)
    \/ plan \in ShapePlans
    \/ plan \in DupPlans
    \/ plan \in GhostPlans
    \/ plan \in FallbackPlans

\* The inputs of run_orchestrator as a GraphState.
NoState == [completed_tasks |-> {}, raw_documents |-> <<>>, agent_summaries |-> <<>>]

\* No call of agent_node, of GenAIClient.generate or of /api/run is under way.
NoResult == [pending |-> TRUE]

AgentIdle ==
    /\ suggested_agents = {}
    /\ tasks = <<>>
    /\ results = <<>>
    /\ finished = <<>>
    /\ agent_outputs = <<>>
    /\ agent_pc = "idle"

GenAIIdle ==
    /\ google_keys = <<>>
    /\ keys = <<>>
    /\ cycle_pos = 0
    /\ rounds = 0
    /\ round = 0
    /\ attempt = 0
    /\ api_key = ""
    /\ failures = 0
    /\ calls = <<>>
    /\ generate_pc = "idle"

ApiIdle ==
    /\ requests = 0
    /\ stages_run = <<>>
    /\ pipeline_result = NoResult
    /\ report_md = FALSE
    /\ rows = <<>>
    /\ response = 0
    /\ api_pc = "idle"

\* inputs of run_orchestrator
Init ==
    /\ StartPlan
    /\ completed_tasks = {}
    /\ raw_documents = <<>>
    /\ agent_summaries = <<>>
    /\ node = "router_node"
    /\ step = 0
    /\ status = "running"
    /\ ret = "pending"
    /\ runnable = <<>>
    /\ trace = <<>>
    /\ swapped = NoState
    /\ AgentIdle /\ GenAIIdle /\ ApiIdle

\* A limit that is tested after the superstep instead of before it.
CanStep_inclusive(n) == status = "running" /\ node = n /\ step <= recursion_limit

\* A superstep may start while fewer than recursion_limit have run.
CanStep(n) == status = "running" /\ node = n /\ step < recursion_limit

\* One entry of trace, written when the call has ended: the task a node ran,
\* by which capability, whether the call returned, the dict it returned (for llm.invoke only whether it
\* returned), runnable_tasks[0] of the router's step before it, and
\* completed_tasks as the node read it.
Dispatch(t, capability, outcome, result) ==
    [task |-> t, capability |-> capability, outcome |-> outcome,
     success |-> result.success, result |-> result,
     routed |-> IF runnable = <<>> THEN 0 ELSE runnable[1],
     before |-> completed_tasks]

\* The partial state `update` of a node is merged and the edge back to
\* router_node is taken.
NodeReturns(update) ==
    /\ completed_tasks' = merge_completed_tasks(completed_tasks, update)
    /\ raw_documents' = merge_raw_documents(raw_documents, update)
    /\ agent_summaries' = merge_agent_summaries(agent_summaries, update)
    /\ node' = "router_node"
    /\ step' = step + 1
    /\ status' = status

\* An exception leaves the node: app.invoke raises it and no write is applied.
NodeRaises ==
    /\ status' = "node_error"
    /\ UNCHANGED <<completed_tasks, raw_documents, agent_summaries, node, step>>

\* agent.run or llm.invoke never returns (every model is built with
\* timeout=None and no call is wrapped in a timeout): the node stays inside
\* the call and app.invoke keeps running.
NodeBlocks ==
    /\ node' = "blocked_in_call"
    /\ UNCHANGED <<completed_tasks, raw_documents, agent_summaries, step, status>>

\* router_node returns {} and the conditional edge get_next_node picks the
\* next node.
router_node ==
    /\ CanStep("router_node")
    /\ runnable' = find_runnable_tasks(plan, completed_tasks)
    /\ node' = get_next_node(plan, completed_tasks)
    /\ step' = step + 1
    /\ UNCHANGED <<plan, completed_tasks, raw_documents, agent_summaries, status, ret, trace,
                   swapped, aux>>

\* A node that never takes the synthesis branch.
is_synthesis_task_never(task) == FALSE

\* `if not task.get("depends_on")` of the nodes: a task with dependencies goes
\* to _run_synthesis_task, any other to the node's agent.
is_synthesis_task(task) == task.depends_on # {}

\* The body shared by competitor_scout_node, tech_paper_miner_node and
\* trend_scraper_node: `agent` is the assigned_agent the node looks for and
\* `label` the agent name it writes into its summaries.
collector_node(agent, label) ==
    /\ LET t == pending_task(plan, completed_tasks, agent) IN
       IF t = 0
       THEN /\ NodeReturns([completed_tasks |-> {}])
            /\ trace' = trace
       ELSE IF ~is_synthesis_task(plan[t])
       THEN \E call \in {"returns", "blocks"} :
               IF call = "returns"
               THEN \E result \in AgentRun(agent, plan[t].id) :
                       /\ NodeReturns(collector_update(label, plan[t].id, result))
                       /\ trace' = Append(trace, Dispatch(t, "collector", "returned", result))
               ELSE /\ NodeBlocks
                    /\ trace' = trace
       ELSE \E llm \in {"returns", "raises", "blocks"} :
               IF llm = "returns"
               THEN /\ NodeReturns(synthesis_update(plan[t]))
                    /\ trace' = Append(trace, Dispatch(t, "synthesizer", "returned", [success |-> TRUE]))
               ELSE IF llm = "raises"
               THEN /\ NodeRaises
                    /\ trace' = Append(trace, Dispatch(t, "synthesizer", "raised", [success |-> FALSE]))
               ELSE /\ NodeBlocks
                    /\ trace' = trace
    /\ UNCHANGED <<plan, ret, runnable, swapped, aux>>

competitor_scout_node ==
    /\ CanStep("competitor_scout")
    /\ collector_node("CompetitorScout", "CompetitorScout")

tech_paper_miner_node ==
    /\ CanStep("tech_paper_miner")
    /\ collector_node("TechPaperMiner", "TechPaperMiner")

trend_scraper_node ==
    /\ CanStep("trend_scraper")
    /\ collector_node("TrendScraper", "TrendsScraper")

\* The graph reached END: app.invoke returns the final state.
graph_end ==
    /\ status = "running"
    /\ node = END
    /\ status' = "returned"
    /\ UNCHANGED <<plan, completed_tasks, raw_documents, agent_summaries, node, step,
                   ret, runnable, trace, swapped, aux>>

\* recursion_limit supersteps have run: app.invoke raises GraphRecursionError.
\* With a node still to run this is the only outcome. When the last permitted
\* superstep was the router's and it chose END, LangGraph releases differ on
\* whether the limit or the stop condition is looked at first, so both
\* graph_end and this action are enabled.
graph_recursion_error ==
    /\ status = "running"
    /\ step = recursion_limit
    /\ status' = "recursion_error"
    /\ UNCHANGED <<plan, completed_tasks, raw_documents, agent_summaries, node, step,
                   ret, runnable, trace, swapped, aux>>

\* run_orchestrator returns {"summaries": ..., "raw_docs": ...} built from the
\* final state, or None from its except block when app.invoke raised.
run_orchestrator_returns ==
    /\ status # "running"
    /\ ret = "pending"
    /\ ret' = IF status = "returned" THEN "result" ELSE "None"
    /\ UNCHANGED <<plan, completed_tasks, raw_documents, agent_summaries, node, step,
                   status, runnable, trace, swapped, aux>>

Next ==
    \/ router_node
    \/ competitor_scout_node
    \/ tech_paper_miner_node
    \/ trend_scraper_node
    \/ graph_end
    \/ graph_recursion_error
    \/ run_orchestrator_returns

Spec == Init /\ [][Next]_vars

\* The runtime goes on while a superstep, the end of the graph or the return
\* of run_orchestrator is possible.
SpecLive == Spec /\ WF_vars(Next)

\* ------------------------------------------------------------------------
\* find_runnable_tasks on its own: any plan, any completed set
\* ------------------------------------------------------------------------
\* The ids a plan mentions, as task ids or as dependencies.
PlanIds(p) ==
    {p[i].id : i \in DOMAIN p} \cup UNION {p[i].depends_on : i \in DOMAIN p}

InitFind ==
    /\ StartPlan
    /\ completed_tasks \in SUBSET PlanIds(plan)
    /\ raw_documents = <<>>
    /\ agent_summaries = <<>>
    /\ node = "router_node"
    /\ step = 0
    /\ status = "running"
    /\ ret = "pending"
    /\ runnable = <<>>
    /\ trace = <<>>
    /\ swapped = NoState
    /\ AgentIdle /\ GenAIIdle /\ ApiIdle

\* One call find_runnable_tasks(plan, completed_tasks); ret tells that it returned.
find_runnable_tasks_call ==
    /\ ret = "pending"
    /\ runnable' = find_runnable_tasks(plan, completed_tasks)
    /\ ret' = "result"
    /\ UNCHANGED <<plan, completed_tasks, raw_documents, agent_summaries, node, step,
                   status, trace, swapped, aux>>

SpecFind == InitFind /\ [][find_runnable_tasks_call]_vars

\* ------------------------------------------------------------------------
\* The reducers on their own: two step results merged in both orders
\* ------------------------------------------------------------------------
\* The agent name each node writes into its summaries.
NodeLabel(agent) == IF agent = "TrendScraper" THEN "TrendsScraper" ELSE agent

\* The partial states the node of task t may return.
StepResults(t) ==
    IF is_synthesis_task(t) THEN {synthesis_update(t)}
    ELSE {collector_update(NodeLabel(t.assigned_agent), t.id, result) :
             result \in AgentRun(t.assigned_agent, t.id)}

\* A node's partial state applied to a GraphState through the reducers.
Merged(state, update) ==
    [completed_tasks |-> merge_completed_tasks(state.completed_tasks, update),
     raw_documents |-> merge_raw_documents(state.raw_documents, update),
     agent_summaries |-> merge_agent_summaries(state.agent_summaries, update)]

\* Tasks 1 and 2 do not depend on each other (each has no dependency or
\* depends on task 3), and task 3 has run.
InitMerge ==
    /\ \E a, b \in KnownAgents, d1, d2 \in {{}, {3}} :
          plan = <<Task(1, a, d1), Task(2, b, d2), Task(3, "CompetitorScout", {})>>
    /\ \E update \in StepResults(Task(3, "CompetitorScout", {})) :
          /\ completed_tasks = Merged(NoState, update).completed_tasks
          /\ raw_documents = Merged(NoState, update).raw_documents
          /\ agent_summaries = Merged(NoState, update).agent_summaries
    /\ node = "router_node"
    /\ step = 0
    /\ status = "running"
    /\ ret = "pending"
    /\ runnable = <<>>
    /\ trace = <<>>
    /\ swapped = NoState
    /\ AgentIdle /\ GenAIIdle /\ ApiIdle

\* The step results of tasks 1 and 2 are merged into the state, task 1 first,
\* and into swapped, task 2 first; ret tells that it was done.
merge_two_steps ==
    /\ ret = "pending"
    /\ \E u1 \in StepResults(plan[1]), u2 \in StepResults(plan[2]) :
          LET state == [completed_tasks |-> completed_tasks,
                        raw_documents |-> raw_documents,
                        agent_summaries |-> agent_summaries] IN
          /\ completed_tasks' = Merged(Merged(state, u1), u2).completed_tasks
          /\ raw_documents' = Merged(Merged(state, u1), u2).raw_documents
          /\ agent_summaries' = Merged(Merged(state, u1), u2).agent_summaries
          /\ swapped' = Merged(Merged(state, u2), u1)
    /\ ret' = "result"
    /\ UNCHANGED <<plan, node, step, status, runnable, trace, aux>>

SpecMerge == InitMerge /\ [][merge_two_steps]_vars

\* ------------------------------------------------------------------------
\* agent_node: the selected tools run under asyncio.gather
\* ------------------------------------------------------------------------
\* No run of the orchestrator graph is under way.
GraphIdle ==
    /\ plan = <<>>
    /\ completed_tasks = {}
    /\ raw_documents = <<>>
    /\ agent_summaries = <<>>
    /\ node = "router_node"
    /\ step = 0
    /\ status = "running"
    /\ ret = "pending"
    /\ runnable = <<>>
    /\ trace = <<>>
    /\ swapped = NoState

\* The list `tasks` of agent_node: one coroutine per selected agent, in the
\* order of the three `if`s, and trend_scraper_tool when none was selected.
build_tasks(selected) ==
    LET chosen ==
            (IF "CompetitorScout" \in selected THEN <<"competitor_tool">> ELSE <<>>)
            \o (IF "TrendScraper" \in selected THEN <<"trend_scraper_tool">> ELSE <<>>)
            \o (IF "TechPaperMiner" \in selected THEN <<"paper_miner_tool">> ELSE <<>>)
    IN IF chosen = <<>> THEN <<"trend_scraper_tool">> ELSE chosen

\* The dict a tool returns, and an exception raised by its agent.
ToolResult(tool) ==
    [agent |-> CASE tool = "competitor_tool"    -> "CompetitorScout"
                 [] tool = "trend_scraper_tool" -> "TrendsScraper"
                 [] OTHER                       -> "TechPaperMiner",
     result |-> "result"]

ToolException == [exception |-> "Exception"]

\* isinstance(r, Exception)
is_exception(r) == "exception" \in DOMAIN r

\* asyncio.gather without return_exceptions: the first exception is raised
\* to the caller.
gather_propagating(ended) ==
    IF \E i \in DOMAIN ended : is_exception(ended[i])
    THEN [raised |-> TRUE, results |-> <<>>]
    ELSE [raised |-> FALSE, results |-> ended]

\* asyncio.gather(*tasks, return_exceptions=True): the values and exceptions
\* of the awaitables in the order of the arguments.
gather(ended) == [raised |-> FALSE, results |-> ended]

\* The loop that builds agent_outputs.
collect_outputs(rs) == SelectSeq(rs, LAMBDA r : ~is_exception(r))

InitAgents ==
    /\ GraphIdle /\ GenAIIdle /\ ApiIdle
    /\ suggested_agents \in SUBSET AgentNames
    /\ tasks = <<>>
    /\ results = <<>>
    /\ finished = <<>>
    /\ agent_outputs = <<>>
    /\ agent_pc = "start"

\* agent_node up to the await: the coroutines are created and scheduled.
agent_node_start ==
    /\ agent_pc = "start"
    /\ tasks' = build_tasks(suggested_agents)
    /\ results' = [i \in DOMAIN build_tasks(suggested_agents) |-> NoResult]
    /\ agent_pc' = "gather"
    /\ UNCHANGED <<suggested_agents, finished, agent_outputs, graph_vars, genai_vars, api_vars>>

\* One of the running tools ends, with its dict or with an exception.
tool_ends ==
    /\ agent_pc = "gather"
    /\ \E i \in DOMAIN results :
          /\ results[i] = NoResult
          /\ \E r \in {ToolResult(tasks[i]), ToolException} :
                results' = [results EXCEPT ![i] = r]
          /\ finished' = Append(finished, i)
    /\ UNCHANGED <<suggested_agents, tasks, agent_outputs, agent_pc, graph_vars, genai_vars,
                   api_vars>>

\* All tools have ended: gather returns and agent_node builds agent_outputs.
agent_node_returns ==
    /\ agent_pc = "gather"
    /\ \A i \in DOMAIN results : results[i] # NoResult
    /\ IF gather(results).raised
       THEN /\ agent_pc' = "raised"
            /\ agent_outputs' = agent_outputs
       ELSE /\ agent_pc' = "returned"
            /\ agent_outputs' = collect_outputs(gather(results).results)
    /\ UNCHANGED <<suggested_agents, tasks, results, finished, graph_vars, genai_vars, api_vars>>

NextAgents == agent_node_start \/ tool_ends \/ agent_node_returns

SpecAgents == InitAgents /\ [][NextAgents]_vars

\* ------------------------------------------------------------------------
\* KeyManager and GenAIClient.generate
\* ------------------------------------------------------------------------
MaxKeys == 2

max_retries_per_key == 3
max_total_retries == 15
soft_fail == TRUE

AllKeys == <<"key1", "key2", "key3", "key4">>

\* KeyManager._init on the class state (keys, position of the cycle; 0 is
\* _cycle = None) with the keys of the settings.
KeyManager_init(ks, pos, configured) ==
    IF pos # 0
    THEN [raised |-> FALSE, keys |-> ks, cycle_pos |-> pos]
    ELSE IF configured = <<>>
         THEN [raised |-> TRUE, keys |-> ks, cycle_pos |-> pos]
         ELSE [raised |-> FALSE, keys |-> configured, cycle_pos |-> 1]

\* KeyManager.next_key: _init, then next(cls._cycle).
next_key(ks, pos, configured) ==
    LET i == KeyManager_init(ks, pos, configured)
    IN IF i.raised
       THEN [raised |-> TRUE, keys |-> i.keys, cycle_pos |-> i.cycle_pos, key |-> ""]
       ELSE [raised |-> FALSE, keys |-> i.keys,
             cycle_pos |-> (i.cycle_pos % Len(i.keys)) + 1,
             key |-> i.keys[i.cycle_pos]]

\* A generate that never applies the global cap.
hard_stop_never(n) == FALSE

\* if failures >= cls.max_total_retries
hard_stop(n) == n >= max_total_retries

GenerateEnded == {"text", "quota_fallback", "all_keys_failed_fallback", "raised"}

\* Start of a process: the settings hold 0..MaxKeys keys and KeyManager has
\* its class attributes (_cycle = None, keys = []).
InitGenAI ==
    /\ GraphIdle /\ AgentIdle /\ ApiIdle
    /\ \E n \in 0..MaxKeys : google_keys = SubSeq(AllKeys, 1, n)
    /\ keys = <<>>
    /\ cycle_pos = 0
    /\ rounds = 0
    /\ round = 0
    /\ attempt = 0
    /\ api_key = ""
    /\ failures = 0
    /\ calls = <<>>
    /\ generate_pc = "idle"

\* GenAIClient.embed: takes the next key (which initialises KeyManager) and
\* makes one embedding call whose failure it absorbs.
embed ==
    /\ generate_pc \in {"idle"} \cup GenerateEnded
    /\ LET k == next_key(keys, cycle_pos, google_keys)
       IN /\ keys' = k.keys
          /\ cycle_pos' = k.cycle_pos
    /\ UNCHANGED <<google_keys, rounds, round, attempt, api_key, failures, calls, generate_pc,
                   graph_vars, agent_vars, api_vars>>

\* generate up to the evaluation of the range of the outer loop.
generate_start ==
    /\ generate_pc \in {"idle"} \cup GenerateEnded
    /\ failures' = 0
    /\ rounds' = Len(keys) * max_retries_per_key
    /\ round' = 0
    /\ attempt' = 0
    /\ api_key' = ""
    /\ calls' = <<>>
    /\ generate_pc' = "for_key"
    /\ UNCHANGED <<google_keys, keys, cycle_pos, graph_vars, agent_vars, api_vars>>

\* Head of the outer loop: the next key and its client, or the end of the
\* loop and the statements after it.
generate_for_key ==
    /\ generate_pc = "for_key"
    /\ IF round < rounds
       THEN LET k == next_key(keys, cycle_pos, google_keys)
            IN /\ round' = round + 1
               /\ keys' = k.keys
               /\ cycle_pos' = k.cycle_pos
               /\ api_key' = k.key
               /\ attempt' = 0
               /\ generate_pc' = IF k.raised THEN "raised" ELSE "attempt"
       ELSE /\ generate_pc' = IF soft_fail THEN "all_keys_failed_fallback" ELSE "raised"
            /\ UNCHANGED <<round, keys, cycle_pos, api_key, attempt>>
    /\ UNCHANGED <<google_keys, rounds, failures, calls, graph_vars, agent_vars, api_vars>>

\* One iteration of the inner loop: generate_content returns or raises.
generate_attempt ==
    /\ generate_pc = "attempt"
    /\ \E ok \in BOOLEAN :
          /\ calls' = Append(calls, [key |-> api_key, ok |-> ok])
          /\ IF ok
             THEN /\ generate_pc' = "text"
                  /\ UNCHANGED <<failures, attempt>>
             ELSE /\ failures' = failures + 1
                  /\ IF hard_stop(failures + 1)
                     THEN /\ generate_pc' = IF soft_fail THEN "quota_fallback" ELSE "raised"
                          /\ attempt' = attempt
                     ELSE IF attempt + 1 < max_retries_per_key
                          THEN /\ attempt' = attempt + 1
                               /\ generate_pc' = "attempt"
                          ELSE /\ attempt' = attempt
                               /\ generate_pc' = "for_key"
    /\ UNCHANGED <<google_keys, keys, cycle_pos, rounds, round, api_key, graph_vars, agent_vars,
                   api_vars>>

NextGenAI == embed \/ generate_start \/ generate_for_key \/ generate_attempt

SpecGenAI == InitGenAI /\ [][NextGenAI]_vars

\* The thread that called generate keeps running, and every model attempt
\* returns or raises.
SpecGenAILive == SpecGenAI /\ WF_vars(generate_for_key) /\ WF_vars(generate_attempt)

\* ------------------------------------------------------------------------
\* run_pipeline and the /api/run endpoint
\* ------------------------------------------------------------------------
MaxRequests == 2

\* The stages of run_pipeline in order, and the error each of the first six
\* returns when its result is falsy.
StageNames == <<"intent", "plan", "orchestrator", "rag_indexed", "strategy", "report",
                "strategic_indexing">>

StageError(s) ==
    CASE s = 1 -> "Intent parsing failed"
      [] s = 2 -> "Task planning failed"
      [] s = 3 -> "Orchestrator failed"
      [] s = 4 -> "RAG indexer failed"
      [] s = 5 -> "Strategy engine failed"
      [] OTHER -> "Report builder failed"

\* result.get("status") == "error"
is_error_result(r) == Get(r, "status", "None") = "error"

\* A server process with an empty reports table; report.md is or is not in
\* its working directory.
InitApi ==
    /\ GraphIdle /\ AgentIdle /\ GenAIIdle
    /\ requests = 0
    /\ stages_run = <<>>
    /\ pipeline_result = NoResult
    /\ report_md \in BOOLEAN
    /\ rows = <<>>
    /\ response = 0
    /\ api_pc = "idle"

\* POST /api/run arrives and run_pipeline runs up to its first stage; an
\* exception there is turned into the status "error" result by its handler.
api_run_request ==
    /\ api_pc \in {"idle", "responded"}
    /\ requests < MaxRequests
    /\ requests' = requests + 1
    /\ stages_run' = <<>>
    /\ response' = 0
    /\ \E prologue \in {"returns", "raises"} :
          IF prologue = "raises"
          THEN /\ pipeline_result' = [status |-> "error", message |-> "exception"]
               /\ api_pc' = "endpoint"
          ELSE /\ pipeline_result' = NoResult
               /\ api_pc' = "pipeline"
    /\ UNCHANGED <<report_md, rows, graph_vars, agent_vars, genai_vars>>

\* The next stage of run_pipeline and the test of what it returned.
run_stage ==
    /\ api_pc = "pipeline"
    /\ LET s == Len(stages_run) + 1
       IN \E ok \in BOOLEAN :
             /\ stages_run' = Append(stages_run, [stage |-> StageNames[s], ok |-> ok])
             /\ IF s <= 6 /\ ~ok
                THEN /\ pipeline_result' = [error |-> StageError(s)]
                     /\ api_pc' = "endpoint"
                ELSE IF s = 7
                     THEN /\ pipeline_result' = [status |-> "success", result |-> "output"]
                          /\ api_pc' = "endpoint"
                     ELSE /\ pipeline_result' = pipeline_result
                          /\ api_pc' = "pipeline"
    /\ UNCHANGED <<requests, report_md, rows, response, graph_vars, agent_vars, genai_vars>>

\* run_agentic_pipeline after run_pipeline returned: the status test, the
\* read of report.md, the INSERT and its commit, and the response; every
\* exception becomes a 500.
api_run_responds ==
    /\ api_pc = "endpoint"
    /\ \E db \in {"commits", "raises"} :
          IF is_error_result(pipeline_result) \/ ~report_md \/ db = "raises"
          THEN /\ response' = 500
               /\ rows' = rows
          ELSE /\ response' = 200
               /\ rows' = Append(rows, [request |-> requests, result_json |-> pipeline_result])
    /\ api_pc' = "responded"
    /\ UNCHANGED <<requests, stages_run, pipeline_result, report_md, graph_vars, agent_vars,
                   genai_vars>>

NextApi == api_run_request \/ run_stage \/ api_run_responds

SpecApi == InitApi /\ [][NextApi]_vars

\* ------------------------------------------------------------------------
\* Properties
\* ------------------------------------------------------------------------
\* The positions of the tasks that are runnable against the completed set c.
RunnableNow(p, c) ==
    {i \in 1..Len(p) : p[i].id \notin c /\ p[i].depends_on \subseteq c}

FirstRunnable(p, c) ==
    IF RunnableNow(p, c) = {} THEN 0
    ELSE CHOOSE i \in RunnableNow(p, c) : \A j \in RunnableNow(p, c) : i <= j

IsPrefix(s, t) == Len(s) <= Len(t) /\ SubSeq(t, 1, Len(s)) = s

\* C1: for every plan and every completed set, find_runnable_tasks returns
\* exactly the tasks whose id is not in completed and whose depends_on is a
\* subset of completed, each of them once.
C1_ReadinessExact ==
    ret = "result" =>
        /\ {runnable[k] : k \in DOMAIN runnable} = RunnableNow(plan, completed_tasks)
        /\ Len(runnable) = Cardinality(RunnableNow(plan, completed_tasks))

\* A call that returns some task, skips a completed one and holds one back.
C1_Witness ==
    /\ ret = "result"
    /\ runnable # <<>>
    /\ \E i \in DOMAIN plan : plan[i].id \in completed_tasks
    /\ \E i \in DOMAIN plan :
          plan[i].id \notin completed_tasks /\ ~(plan[i].depends_on \subseteq completed_tasks)

\* C2: a task is dispatched only when every id of its depends_on is in
\* completed_tasks, and its summary comes after the summaries of all the ids
\* it depends on.
C2_DependenciesFirst ==
    /\ \A k \in DOMAIN trace : plan[trace[k].task].depends_on \subseteq trace[k].before
    /\ Len(agent_summaries) <= Len(trace)
    /\ \A j \in DOMAIN agent_summaries :
          /\ agent_summaries[j].task_id = plan[trace[j].task].id
          /\ \A d \in plan[trace[j].task].depends_on :
                \E i \in 1..(j - 1) : agent_summaries[i].task_id = d

\* A task with two dependencies has run and has its summary.
C2_Witness ==
    \E j \in DOMAIN agent_summaries : Cardinality(plan[trace[j].task].depends_on) >= 2

\* C3: the task a capability node executes and marks complete is the first
\* runnable task in plan order, the one the router selected.
C3_FirstRunnableExecuted ==
    \A k \in DOMAIN trace :
        /\ trace[k].task = trace[k].routed
        /\ trace[k].task = FirstRunnable(plan, trace[k].before)
        /\ trace[k].outcome = "returned" => plan[trace[k].task].id \in completed_tasks

\* A node ran a task while a later task of the same agent was runnable too.
C3_Witness ==
    \E k \in DOMAIN trace :
        \E i \in RunnableNow(plan, trace[k].before) :
            /\ i # trace[k].task
            /\ plan[i].assigned_agent = plan[trace[k].task].assigned_agent

\* C4: no step removes an id from completed_tasks or removes or changes an
\* entry of raw_documents or agent_summaries.
C4_Monotone ==
    [][/\ completed_tasks \subseteq completed_tasks'
       /\ IsPrefix(raw_documents, raw_documents')
       /\ IsPrefix(agent_summaries, agent_summaries')]_vars

\* Two steps have each added an id, a document and a summary.
C4_Witness ==
    /\ Cardinality(completed_tasks) >= 2
    /\ Len(raw_documents) >= 2
    /\ Len(agent_summaries) >= 2

\* The ids of the tasks of a plan.
TaskIds(p) == {p[i].id : i \in DOMAIN p}

\* The ids that become complete when every runnable task is run, over and over.
RECURSIVE Completable(_, _)
Completable(p, c) ==
    LET new == {p[i].id : i \in RunnableNow(p, c)} IN
    IF new = {} THEN c ELSE Completable(p, c \cup new)

\* A task graph proper: distinct ids, dependencies on tasks of the plan only,
\* no cycle.
Acyclic(p) ==
    /\ \A i, j \in DOMAIN p : p[i].id = p[j].id => i = j
    /\ \A i \in DOMAIN p : p[i].depends_on \subseteq TaskIds(p)
    /\ Completable(p, {}) = TaskIds(p)

\* C5: for an acyclic task graph with N tasks the run reaches DONE in at most
\* N dispatches, with completed_tasks equal to the set of all task ids.
C5_Termination ==
    (Acyclic(plan) /\ status # "running") =>
        /\ status = "returned"
        /\ completed_tasks = TaskIds(plan)
        /\ Len(trace) <= Len(plan)

\* C6: a task with a non-empty depends_on is run by the Synthesizer
\* (_run_synthesis_task), whatever its assigned_agent.
C6_SynthesisRouting ==
    \A k \in DOMAIN trace :
        plan[trace[k].task].depends_on # {} => trace[k].capability = "synthesizer"

\* A task with dependencies, assigned to a collector, was run by the Synthesizer.
C6_Witness ==
    \E k \in DOMAIN trace :
        /\ plan[trace[k].task].depends_on # {}
        /\ plan[trace[k].task].assigned_agent \in KnownAgents
        /\ trace[k].capability = "synthesizer"
        /\ trace[k].outcome = "returned"

\* C7: a runnable task whose assigned_agent names no known capability does not
\* stop the run: when the run is DONE the task is in completed_tasks and has a
\* summary.
C7_UnroutableCompleted ==
    status = "returned" =>
        \A i \in DOMAIN plan :
            (plan[i].assigned_agent \notin KnownAgents
                /\ plan[i].depends_on \subseteq completed_tasks) =>
            /\ plan[i].id \in completed_tasks
            /\ \E j \in DOMAIN agent_summaries : agent_summaries[j].task_id = plan[i].id

\* C8: a run that ends without exhausting the iteration budget ends with no
\* task runnable against the final completed_tasks.
C8_EndsWithNothingRunnable ==
    (status # "running" /\ status # "recursion_error") =>
        RunnableNow(plan, completed_tasks) = {}

\* C9: when recursion_limit is reached before the run has finished, no error
\* is raised and the caller gets the state accumulated so far.
C9_BudgetNotAnError ==
    (step = recursion_limit /\ node # END) =>
        /\ status # "recursion_error"
        /\ ret # "pending" => ret = "result"

\* C10: no failure inside a capability call, collector or Synthesizer, aborts
\* the run: the caller still gets an execution state.
C10_FailureNeverAborts ==
    (\E k \in DOMAIN trace : ~trace[k].success) =>
        /\ status # "node_error"
        /\ (ret # "pending" /\ status # "recursion_error") => ret = "result"

\* The dispatches of the run of plan p in which every capability call
\* succeeds, from the completed set c on: the first runnable task, while there
\* is one and its agent has a node.
RECURSIVE ScheduleFrom(_, _)
ScheduleFrom(p, c) ==
    LET t == FirstRunnable(p, c) IN
    IF t = 0 THEN <<>>
    ELSE IF p[t].assigned_agent \notin KnownAgents THEN <<>>
    ELSE <<t>> \o ScheduleFrom(p, c \cup {p[t].id})

Schedule(p) == ScheduleFrom(p, {})

\* The task positions of the dispatches so far, in order.
Dispatched == [k \in DOMAIN trace |-> trace[k].task]

\* completed_tasks right after the k-th dispatch.
After(k) == IF k < Len(trace) THEN trace[k + 1].before ELSE completed_tasks

FailedCollectorCalls ==
    {k \in DOMAIN trace : trace[k].capability = "collector" /\ ~trace[k].success}

\* C11: when exactly one collector call fails, the id of its task is in
\* completed_tasks right after that step, and the finished run has dispatched
\* and completed the same tasks in the same order as the run of the same plan
\* in which every call succeeds.
C11_FailureIsolated ==
    Cardinality(FailedCollectorCalls) = 1 =>
        /\ \A k \in FailedCollectorCalls : plan[trace[k].task].id \in After(k)
        /\ status = "returned" =>
              /\ Dispatched = Schedule(plan)
              /\ completed_tasks = {plan[Schedule(plan)[k]].id : k \in DOMAIN Schedule(plan)}

\* A finished run of three or more tasks with one failed collector call that
\* was not the last dispatch.
C11_Witness ==
    /\ status = "returned"
    /\ Cardinality(FailedCollectorCalls) = 1
    /\ \E k \in FailedCollectorCalls : k < Len(trace)
    /\ Len(trace) >= 3
    /\ Len(trace) = Len(plan)

\* C12: the summary appended for a task whose capability call failed has a
\* payload that records the error of the call.
C12_ErrorRecorded ==
    \A j \in DOMAIN agent_summaries :
        ~trace[j].success =>
            /\ "error" \in DOMAIN trace[j].result
            /\ agent_summaries[j].summary = trace[j].result.error

\* The step appended a dispatch whose capability call failed.
FailingStep ==
    /\ Len(trace') = Len(trace) + 1
    /\ ~trace'[Len(trace')].success

RECURSIVE DependencyClosure(_, _)
DependencyClosure(p, ids) ==
    LET more == ids \cup UNION {p[i].depends_on : i \in {j \in DOMAIN p : p[j].id \in ids}} IN
    IF more = ids THEN ids ELSE DependencyClosure(p, more)

\* Task i depends, directly or through other tasks, on itself.
OnCycle(p, i) == p[i].id \in DependencyClosure(p, p[i].depends_on)

HasCycle(p) == \E i \in DOMAIN p : OnCycle(p, i)

OffCycle(p) == {i \in DOMAIN p : ~OnCycle(p, i)}

C15_AtMostOnce ==
    /\ \A j, k \in DOMAIN trace : trace[j].task = trace[k].task => j = k
    /\ \A i, j \in DOMAIN agent_summaries :
          agent_summaries[i].task_id = agent_summaries[j].task_id => i = j

\* A finished run in which a call failed, a call succeeded, and the tasks of
\* both stayed pending in the plan while two later steps picked other tasks.
C15_Witness ==
    /\ status = "returned"
    /\ Len(trace) >= 4
    /\ ~trace[1].success
    /\ trace[2].success

\* The step is one in which a node ran a task and returned.
DispatchingStep ==
    /\ Len(trace') = Len(trace) + 1
    /\ trace'[Len(trace')].outcome = "returned"

\* C16: a step runs at most one capability; a dispatching step adds exactly
\* one id, new to completed_tasks, and exactly one entry to agent_summaries,
\* any other step adds none; so in every reachable state the number of
\* summaries equals the number of ids in completed_tasks.
C16_OneAtATime ==
    /\ [](Len(agent_summaries) = Cardinality(completed_tasks))
    /\ [][/\ Len(trace') <= Len(trace) + 1
          /\ IF DispatchingStep
             THEN LET id == plan[trace'[Len(trace')].task].id IN
                  /\ id \notin completed_tasks
                  /\ completed_tasks' = completed_tasks \cup {id}
                  /\ Len(agent_summaries') = Len(agent_summaries) + 1
                  /\ agent_summaries'[Len(agent_summaries')].task_id = id
             ELSE /\ completed_tasks' = completed_tasks
                  /\ agent_summaries' = agent_summaries]_vars

\* Three or more dispatching steps, one of a failed collector call and one of
\* the Synthesizer, have each added an id and a summary.
C16_Witness ==
    /\ Len(agent_summaries) >= 3
    /\ Cardinality(completed_tasks) = Len(agent_summaries)
    /\ \E k \in DOMAIN agent_summaries : ~trace[k].success
    /\ \E k \in DOMAIN agent_summaries : trace[k].capability = "synthesizer"

\* C17: the dispatches of a run are determined by the plan: whatever the
\* capability calls returned, the tasks dispatched so far are, in order, the
\* first ones of the one schedule of the plan, and completed_tasks holds the
\* ids of exactly those whose node returned. Two runs on the same plan with the
\* same outcomes therefore dispatch the same tasks in the same order and end
\* with the same completed_tasks.
C17_Deterministic ==
    /\ IsPrefix(Dispatched, Schedule(plan))
    /\ completed_tasks =
          {plan[trace[k].task].id : k \in {j \in DOMAIN trace : trace[j].outcome = "returned"}}

\* A finished run with successes and a failure in which some step had two or
\* more runnable tasks to choose from.
C17_Witness ==
    /\ status = "returned"
    /\ Len(trace) >= 3
    /\ \E k \in DOMAIN trace : ~trace[k].success
    /\ \E k \in DOMAIN trace : trace[k].success
    /\ \E k \in DOMAIN trace : Cardinality(RunnableNow(plan, trace[k].before)) >= 2

Range(s) == {s[k] : k \in DOMAIN s}

\* C18: merging the step results of two tasks that do not depend on each
\* other in either order gives the same completed_tasks and the same
\* raw_documents and agent_summaries as sets of entries, with the same number
\* of entries; only the order of the list entries may differ.
C18_MergeCommutes ==
    ret = "result" =>
        /\ completed_tasks = swapped.completed_tasks
        /\ Range(raw_documents) = Range(swapped.raw_documents)
        /\ Len(raw_documents) = Len(swapped.raw_documents)
        /\ Range(agent_summaries) = Range(swapped.agent_summaries)
        /\ Len(agent_summaries) = Len(swapped.agent_summaries)

\* Both tasks returned documents and the two orders give different lists.
C18_Witness ==
    /\ ret = "result"
    /\ Len(raw_documents) >= 3
    /\ raw_documents # swapped.raw_documents
    /\ agent_summaries # swapped.agent_summaries
    /\ {1, 2} \subseteq completed_tasks

\* C19: in every reachable state every id in completed_tasks is the id of a
\* task of the plan.
C19_CompletedInPlan == completed_tasks \subseteq TaskIds(plan)

\* A finished run has completed three or more tasks, through a failed
\* collector call and through the Synthesizer among them.
C19_Witness ==
    /\ status = "returned"
    /\ Cardinality(completed_tasks) >= 3
    /\ \E k \in DOMAIN trace : trace[k].capability = "collector" /\ ~trace[k].success
    /\ \E k \in DOMAIN trace : trace[k].capability = "synthesizer"

\* The step is one in which a node called _run_synthesis_task.
SynthesisStep ==
    /\ Len(trace') = Len(trace) + 1
    /\ trace'[Len(trace')].capability = "synthesizer"

\* C20: a step that runs the Synthesizer leaves raw_documents unchanged and,
\* when it returns, appends exactly one summary, that of its task; and in
\* every reachable state every entry of raw_documents is a document that a
\* collector call returned.
C20_SynthesizerAddsNoEvidence ==
    /\ [][SynthesisStep =>
            /\ raw_documents' = raw_documents
            /\ trace'[Len(trace')].outcome = "returned" =>
                  /\ Len(agent_summaries') = Len(agent_summaries) + 1
                  /\ IsPrefix(agent_summaries, agent_summaries')
                  /\ agent_summaries'[Len(agent_summaries')].task_id =
                        plan[trace'[Len(trace')].task].id]_vars
    /\ [](\A d \in Range(raw_documents) :
            \E k \in DOMAIN trace :
                /\ trace[k].capability = "collector"
                /\ "output_raw_docs" \in DOMAIN trace[k].result
                /\ d \in Range(trace[k].result.output_raw_docs))

\* A finished run in which the Synthesizer ran after collectors had returned
\* documents.
C20_Witness ==
    /\ status = "returned"
    /\ raw_documents # <<>>
    /\ \E j, k \in DOMAIN trace :
          /\ j < k
          /\ trace[j].capability = "collector" /\ trace[j].success
          /\ trace[k].capability = "synthesizer" /\ trace[k].outcome = "returned"

\* The positions of the tasks that depend on an id no task of the plan has.
GhostTasks(p) == {i \in DOMAIN p : ~(p[i].depends_on \subseteq TaskIds(p))}

\* The plan without those tasks.
WithoutGhosts(p) == SelectSeq(p, LAMBDA t : t.depends_on \subseteq TaskIds(p))

\* The ids of the tasks at the positions s of plan p, in order.
IdsAt(p, s) == [k \in DOMAIN s |-> p[s[k]].id]

\* C21: a task that depends on an id that no task of the plan has is never
\* dispatched and never in completed_tasks; the other tasks are dispatched as
\* in the run of the plan without it, no superstep is spent on it, and a run
\* that reached END has dispatched all that the plan without it dispatches.
C21_GhostNeverRuns ==
    GhostTasks(plan) # {} =>
        /\ \A i \in GhostTasks(plan) :
              /\ plan[i].id \notin completed_tasks
              /\ \A k \in DOMAIN trace : trace[k].task # i
        /\ IsPrefix(IdsAt(plan, Dispatched),
                    IdsAt(WithoutGhosts(plan), Schedule(WithoutGhosts(plan))))
        /\ step <= 2 * Len(WithoutGhosts(plan)) + 1
        /\ status = "returned" =>
              IdsAt(plan, Dispatched) =
                  IdsAt(WithoutGhosts(plan), Schedule(WithoutGhosts(plan)))

\* A finished run on a plan with such a task has dispatched the two other
\* tasks, one before and one after it in plan order.
C21_Witness ==
    /\ GhostTasks(plan) # {}
    /\ status = "returned"
    /\ ret = "result"
    /\ Len(trace) = 2
    /\ \E j, k \in DOMAIN trace :
          \E i \in GhostTasks(plan) : trace[j].task < i /\ i < trace[k].task

\* C22: with an empty task list the first superstep, the router's, goes to
\* END; no capability is dispatched, the state stays the initial one and the
\* caller gets it.
C22_EmptyPlan ==
    plan = <<>> =>
        /\ trace = <<>>
        /\ completed_tasks = {} /\ raw_documents = <<>> /\ agent_summaries = <<>>
        /\ step <= 1
        /\ step = 1 => node = END
        /\ status \in {"running", "returned"}
        /\ ret # "pending" => ret = "result"

\* The run on the empty plan has returned to the caller.
C22_Witness ==
    /\ plan = <<>>
    /\ step = 1
    /\ status = "returned"
    /\ ret = "result"

\* C23: a capability call that never returns is timed out: app.invoke does
\* not stay inside the call, the run ends and run_orchestrator returns.
C23_HangIsTimedOut ==
    (node = "blocked_in_call") ~> (status # "running" /\ ret # "pending")

\* C24: the budget counts node executions: after n dispatches that returned,
\* 2n supersteps have run when the router is next and 2n + 1 when a node or
\* END is; so at most recursion_limit \div 2 = 7 tasks are ever complete,
\* however many are runnable.
C24_TwoStepsPerTask ==
    /\ step = 2 * Len(agent_summaries) + (IF node = "router_node" THEN 0 ELSE 1)
    /\ step <= recursion_limit
    /\ Cardinality(completed_tasks) <= recursion_limit \div 2
    /\ Len(trace) <= recursion_limit \div 2 + 1

\* Seven tasks of a longer plan of independent tasks are complete, more are
\* runnable, and the run has ended in GraphRecursionError.
C24_Witness ==
    /\ Cardinality(completed_tasks) = 7
    /\ Cardinality(RunnableNow(plan, completed_tasks)) >= 1
    /\ step = recursion_limit
    /\ status = "recursion_error"

\* Pairs of positions of tasks that share an id.
SharedIdPairs(p) == {<<i, j>> \in (DOMAIN p) \X (DOMAIN p) : i < j /\ p[i].id = p[j].id}

WasDispatched(i) == \E k \in DOMAIN trace : trace[k].task = i

\* C25: of two tasks that share an id at most one is ever dispatched; once
\* its node has returned, the id is complete, the other task is not runnable,
\* a finished run has completed every task of a known agent that depends on
\* that id alone, and the run takes no superstep for the other task.
C25_SharedIdRunsOnce ==
    \A pair \in SharedIdPairs(plan) :
        LET i == pair[1]
            j == pair[2] IN
        /\ ~(WasDispatched(i) /\ WasDispatched(j))
        /\ step <= 2 * (Len(plan) - 1) + 1
        /\ (WasDispatched(i) \/ WasDispatched(j)) =>
              /\ plan[i].id \in completed_tasks
              /\ {i, j} \cap RunnableNow(plan, completed_tasks) = {}
              /\ status = "returned" =>
                    \A m \in DOMAIN plan :
                        (plan[m].depends_on = {plan[i].id}
                            /\ plan[m].assigned_agent \in KnownAgents) =>
                        plan[m].id \in completed_tasks /\ WasDispatched(m)

\* A finished run: of two tasks of different agents with the same id the
\* first ran, the second never did, and the task that depends on the id ran.
C25_Witness ==
    /\ status = "returned"
    /\ \E pair \in SharedIdPairs(plan) :
          /\ plan[pair[1]].assigned_agent # plan[pair[2]].assigned_agent
          /\ plan[pair[2]].assigned_agent \in KnownAgents
          /\ WasDispatched(pair[1])
          /\ ~WasDispatched(pair[2])
          /\ \E m \in DOMAIN plan :
                plan[m].depends_on = {plan[pair[1]].id} /\ WasDispatched(m)

\* C26: a plan of _fallback_plan is run to completion: its tasks are
\* dispatched in plan order, each to the collector it names, the recursion
\* limit is not reached, a run that ended has returned with every task id in
\* completed_tasks, and unless a call never returns the run does end so and
\* run_orchestrator returns the result.
C26_FallbackCompletes ==
    /\ [](plan \in FallbackPlans =>
            /\ \A k \in DOMAIN trace :
                  /\ trace[k].task = k
                  /\ trace[k].capability = "collector"
                  /\ agent_summaries[k].agent = NodeLabel(plan[k].assigned_agent)
            /\ step < recursion_limit
            /\ status \in {"running", "returned"}
            /\ status = "returned" => completed_tasks = TaskIds(plan))
    /\ plan \in FallbackPlans =>
          <>(\/ node = "blocked_in_call"
             \/ ret = "result" /\ completed_tasks = TaskIds(plan))

\* The run of the fallback plan with all three agents has returned its result,
\* one call having failed.
C26_Witness ==
    /\ plan \in FallbackPlans
    /\ Len(plan) = 3
    /\ ret = "result"
    /\ completed_tasks = {1, 2, 3}
    /\ \E k \in DOMAIN trace : ~trace[k].success

\* The agent names of the tool dicts in the order of agent_node's `if`s.
FixedOrder == <<"CompetitorScout", "TrendsScraper", "TechPaperMiner">>

PositionIn(s, x) == CHOOSE k \in DOMAIN s : s[k] = x

\* C27: in agent_node a tool that ends first or fails neither cancels nor
\* discards the others: the node waits for all of them, never raises, and
\* agent_outputs holds exactly the dicts of the tools that returned one, each
\* once, in the order CompetitorScout, TrendsScraper, TechPaperMiner, whatever
\* the order in which the tools ended.
C27_GatherKeepsOthers ==
    /\ agent_pc # "raised"
    /\ agent_pc = "returned" =>
          /\ Len(finished) = Len(tasks)
          /\ Range(agent_outputs) =
                {ToolResult(tasks[i]) : i \in {j \in DOMAIN tasks : ~is_exception(results[j])}}
          /\ \A a, b \in DOMAIN agent_outputs :
                a < b => PositionIn(FixedOrder, agent_outputs[a].agent)
                            < PositionIn(FixedOrder, agent_outputs[b].agent)

\* Three tools ran, the last one of the list ended first, the middle one
\* failed, and the node returned the two other results.
C27_Witness ==
    /\ agent_pc = "returned"
    /\ Len(tasks) = 3
    /\ finished[1] = 3
    /\ is_exception(results[2])
    /\ Len(agent_outputs) = 2

FailedCalls == {i \in DOMAIN calls : ~calls[i].ok}

\* C28: a call of GenAIClient.generate terminates: it never makes more than
\* max_total_retries failed model attempts, it never ends by raising, and once
\* started it ends with the text of the model or with one of the two fallback
\* messages.
C28_GenerateTerminates ==
    /\ [](/\ failures = Cardinality(FailedCalls)
          /\ failures <= max_total_retries
          /\ generate_pc # "raised")
    /\ (generate_pc \in {"for_key", "attempt"})
          ~> (generate_pc \in {"text", "quota_fallback", "all_keys_failed_fallback"})

\* A call stopped by the global cap after 15 failed attempts.
C28_Witness ==
    /\ generate_pc = "quota_fallback"
    /\ Cardinality(FailedCalls) = max_total_retries

\* C29: whenever generate returns the "all API keys failed" fallback while
\* keys are configured, it has made at least one model attempt with one of
\* the configured keys.
C29_AttemptBeforeFallback ==
    (generate_pc = "all_keys_failed_fallback" /\ google_keys # <<>>)
        => \E i \in DOMAIN calls : calls[i].key \in Range(google_keys)

\* The request being served had one of its stages 1 to 6 fail.
StageFailed == \E i \in DOMAIN stages_run : i <= 6 /\ ~stages_run[i].ok

\* C30: when one of the stages 1 to 6 of run_pipeline fails, no later stage
\* runs, and the request is answered with an error: /api/run responds 500 and
\* inserts no row into reports for it.
C30_StageFailureIsError ==
    StageFailed =>
        /\ ~stages_run[Len(stages_run)].ok
        /\ \A i \in 1..(Len(stages_run) - 1) : stages_run[i].ok
        /\ api_pc = "responded" =>
              /\ response = 500
              /\ \A r \in DOMAIN rows : rows[r].request # requests

====
